---- MODULE Spec2Model ----
(***************************************************************************)
(* A model of winlib (src/src/main.rs): parse_args, main, create_lib and   *)
(* list_lib.  Archive decoding, COFF / import-descriptor parsing and       *)
(* archive encoding are done by external crates; they are modelled by the  *)
(* results they hand to this program (Ok / Err, member name, file range,   *)
(* section names).                                                         *)
(*                                                                         *)
(* Numbers wider than 31 bits are kept as tuples of 16-bit limbs, most     *)
(* significant first: a u32 is <<hi, lo>>, a u64 is <<l3, l2, l1, l0>>.    *)
(***************************************************************************)
EXTENDS Integers, Sequences, FiniteSets, TLC

\* ---- bounds of the model ----
MaxMembers == 2
MaxArgs == 6
MaxExcludes == 1
MaxRuns == 2

\* One limb holds 16 bits.
Limb == 2 ^ 16

None == "<none>"

\* ------------------------------------------------------------------------
\* String::from_utf8_lossy on a byte sequence (bytes are 0..255).
\* ------------------------------------------------------------------------
ReplacementChar == <<239, 191, 189>>

InRange(b, i, lo, hi) == i <= Len(b) /\ b[i] >= lo /\ b[i] <= hi

Utf8CharWidth(x) ==
    IF x < 128 THEN 1
    ELSE IF x >= 194 /\ x <= 223 THEN 2
    ELSE IF x >= 224 /\ x <= 239 THEN 3
    ELSE IF x >= 240 /\ x <= 244 THEN 4
    ELSE 0

\* Is the second byte of the sequence starting at i acceptable?
SecondOk(b, i) ==
    LET f == b[i] IN
    CASE f = 224 -> InRange(b, i + 1, 160, 191)
      [] f = 237 -> InRange(b, i + 1, 128, 159)
      [] f = 240 -> InRange(b, i + 1, 144, 191)
      [] f = 244 -> InRange(b, i + 1, 128, 143)
      [] OTHER   -> InRange(b, i + 1, 128, 191)

\* <<valid, n>>: the chunk starting at i is a valid character of n bytes, or
\* an invalid sequence of n bytes that is replaced by one U+FFFD.
Utf8Chunk(b, i) ==
    LET w == Utf8CharWidth(b[i]) IN
    IF w = 1 THEN <<TRUE, 1>>
    ELSE IF w = 0 THEN <<FALSE, 1>>
    ELSE IF ~SecondOk(b, i) THEN <<FALSE, 1>>
    ELSE IF w = 2 THEN <<TRUE, 2>>
    ELSE IF ~InRange(b, i + 2, 128, 191) THEN <<FALSE, 2>>
    ELSE IF w = 3 THEN <<TRUE, 3>>
    ELSE IF ~InRange(b, i + 3, 128, 191) THEN <<FALSE, 3>>
    ELSE <<TRUE, 4>>

RECURSIVE LossyFrom(_, _)
LossyFrom(b, i) ==
    IF i > Len(b) THEN <<>>
    ELSE LET c == Utf8Chunk(b, i) IN
         (IF c[1] THEN SubSeq(b, i, i + c[2] - 1) ELSE ReplacementChar)
            \o LossyFrom(b, i + c[2])

FromUtf8Lossy(b) == LossyFrom(b, 1)

RECURSIVE ValidFrom(_, _)
ValidFrom(b, i) ==
    IF i > Len(b) THEN TRUE
    ELSE LET c == Utf8Chunk(b, i) IN c[1] /\ ValidFrom(b, i + c[2])

\* OsStr::to_str: Some(s) exactly when the bytes are valid UTF-8.
ToStrIsSome(b) == ValidFrom(b, 1)

\* ------------------------------------------------------------------------
\* u32::from_str_radix on a byte string; the result is <<ok, value>> with
\* value a u32 in limbs.
\* ------------------------------------------------------------------------
DigitValue(c, radix) ==
    LET v == IF c >= 48 /\ c <= 57 THEN c - 48
             ELSE IF c >= 97 /\ c <= 122 THEN c - 97 + 10
             ELSE IF c >= 65 /\ c <= 90 THEN c - 65 + 10
             ELSE radix
    IN IF v < radix THEN v ELSE -1

ZeroU32 == <<0, 0>>

RECURSIVE ParseDigits(_, _, _, _)
ParseDigits(s, k, radix, acc) ==
    IF k > Len(s) THEN <<TRUE, acc>>
    ELSE LET d  == DigitValue(s[k], radix)
             lo == acc[2] * radix + d
             hi == acc[1] * radix + (lo \div Limb)
         IN IF d < 0 THEN <<FALSE, ZeroU32>>
            ELSE IF hi >= Limb THEN <<FALSE, ZeroU32>>
            ELSE ParseDigits(s, k + 1, radix, <<hi, lo % Limb>>)

FromStrRadix(s, radix) ==
    LET digits == IF Len(s) > 0 /\ s[1] = 43 THEN Tail(s) ELSE s IN
    IF Len(digits) = 0 THEN <<FALSE, ZeroU32>>
    ELSE ParseDigits(digits, 1, radix, ZeroU32)

StartsWith(s, prefix) ==
    Len(s) >= Len(prefix) /\ SubSeq(s, 1, Len(prefix)) = prefix

\* The offset parse of --exclude / --remove (main.rs 245-254).
ParseOffset(s) ==
    IF StartsWith(s, <<48, 120>>)
    THEN FromStrRadix(SubSeq(s, 3, Len(s)), 16)
    ELSE FromStrRadix(s, 10)

\* Variant: a checked conversion that matches nothing above 32 bits.
AsU32_Checked(x) ==
    IF x[1] = 0 /\ x[2] = 0 THEN <<x[3], x[4]>> ELSE <<Limb, Limb>>

\* `x as u32` of a u64: the low 32 bits.
AsU32(x) == <<x[3], x[4]>>

\* ------------------------------------------------------------------------
\* The files the program may be given.
\* ------------------------------------------------------------------------
\* Member names (bytes): "a\xC3\xA9" is valid UTF-8, "a\xFF" is not.
Names == { <<97, 195, 169>>, <<97, 255>> }

SecText   == <<46, 116, 101, 120, 116>>
SecIdata  == <<46, 105, 100, 97, 116, 97>>
SecIdata2 == <<46, 105, 100, 97, 116, 97, 36, 50>>
IdataPrefix == <<46, 105, 100, 97, 116, 97, 36>>

SecOk(n) == [ok |-> TRUE, name |-> n]
SecErr   == [ok |-> FALSE, name |-> <<>>]

\* A payload is described by what the two parsers make of it:
\* coff: CoffFile::parse is Ok; sections: what section.name() yields for each
\* section in table order; import: ImportFile::parse is Ok.
PObject  == [coff |-> TRUE, sections |-> <<SecOk(SecText), SecOk(SecIdata)>>, import |-> FALSE]
PIdata   == [coff |-> TRUE, sections |-> <<SecOk(SecText), SecOk(SecIdata2)>>, import |-> FALSE]
PNameErr == [coff |-> TRUE, sections |-> <<SecErr, SecOk(SecIdata2)>>, import |-> FALSE]
PImport  == [coff |-> FALSE, sections |-> <<>>, import |-> TRUE]
PJunk    == [coff |-> FALSE, sections |-> <<>>, import |-> FALSE]

Payloads == {PObject, PIdata, PNameErr, PImport, PJunk}

\* The data ranges of consecutive members: 0x44, 0x120 and 2^32 + 0x44; each
\* size fills the gap to the next 60-byte member header.
Layout == <<
    [offset |-> <<0, 0, 0, 68>>,  size |-> <<0, 0, 0, 160>>],
    [offset |-> <<0, 0, 0, 288>>, size |-> <<0, 0, 65535, 65256>>],
    [offset |-> <<0, 1, 0, 68>>,  size |-> <<0, 0, 0, 20>>] >>

\* What the members iterator yields for one entry: "ok", or an Err from the
\* iterator ("hdr_err"), or a member whose data() is Err ("data_err").
EntryContents ==
    [status : {"ok"}, name : Names, payload : Payloads]
      \cup { [status |-> "data_err", name |-> <<97, 255>>, payload |-> PJunk],
             [status |-> "hdr_err", name |-> <<>>, payload |-> PJunk] }

Entry(slot, c) ==
    [status |-> c.status, name |-> c.name, payload |-> c.payload,
     offset |-> Layout[slot].offset, size |-> Layout[slot].size]

\* Archives of n consecutive members starting at layout slot s.
ArchivesOf(n) ==
    IF n = 0 THEN { <<>> }
    ELSE UNION { { [k \in 1..n |-> Entry(s + k - 1, f[k])] :
                     f \in [1..n -> EntryContents] } :
                 s \in 1..(Len(Layout) - n + 1) }

NotAnArchive == [read |-> TRUE, archive |-> FALSE, entries |-> <<>>]

FileContents ==
    { NotAnArchive } \cup
    UNION { { [read |-> TRUE, archive |-> TRUE, entries |-> e] : e \in ArchivesOf(n) } :
            n \in 0..(IF MaxMembers < Len(Layout) THEN MaxMembers ELSE Len(Layout)) }

\* The file before the program's first fs::read of it.
Unread == [read |-> FALSE, archive |-> FALSE, entries |-> <<>>]

\* ------------------------------------------------------------------------
\* Command-line arguments as lexopt hands them over.
\* ------------------------------------------------------------------------
\* kind: "short" | "long" | "value"; name: the option name; path: the text of
\* a Value, or of the option's value; num: the bytes of the value of
\* --exclude; has_value: parser.value() is Ok.
Arg(kind, name, path, num, has_value) ==
    [kind |-> kind, name |-> name, path |-> path, num |-> num, has_value |-> has_value]

Short(c)      == Arg("short", c, None, <<>>, FALSE)
Long(n)       == Arg("long", n, None, <<>>, FALSE)
LongPath(n, v) == Arg("long", n, v, <<>>, TRUE)
LongNum(n, b) == Arg("long", n, None, b, TRUE)
Value(v)      == Arg("value", None, v, <<>>, FALSE)

\* "0x44", "68", "+68", "0x120", "4294967296", "0x", "0X44", "\xFF"
ExcludeStrs ==
    { <<48, 120, 52, 52>>, <<54, 56>>, <<43, 54, 56>>, <<48, 120, 49, 50, 48>>,
      <<52, 50, 57, 52, 57, 54, 55, 50, 57, 54>>, <<48, 120>>, <<48, 88, 52, 52>>,
      <<255>> }

\* The first argument ranges over the two commands and a path; a later Value
\* is a path.
ArgPool(isFirst) ==
    { Short("h"), Short("x"), Long("help"), Long("bogus"),
      Long("exclude-idata"), Long("remove-idata"),
      Long("from"), LongPath("from", "b.lib"),
      LongPath("save-excluded", "c.lib"), LongPath("keep-removed", "c.lib"),
      Long("exclude"), Value("a.lib") }
      \cup { LongNum("exclude", b) : b \in ExcludeStrs }
      \cup { LongNum("remove", <<48, 120, 52, 52>>) }
      \cup (IF isFirst THEN { Value("create"), Value("list") } ELSE {})

DefaultOptions ==
    [command |-> None, exclude_idata |-> FALSE, exclude_offsets |-> <<>>,
     from_lib |-> None, target_lib |-> None, save_excluded |-> None,
     help |-> FALSE]

VARIABLES
    pc,                 \* where the process is
    options,            \* parse_args: options; later main's options
    first,              \* parse_args: first
    unexpected,         \* parse_args: unexpected.is_some()
    nargs,              \* arguments taken from the parser so far
    parse_err,          \* parse_args returned Err
    file,               \* the content of the library file that is read
    i,                  \* members the loop of create_lib / list_lib has taken
    included_members,   \* create_lib: included_members
    extracted_members,  \* create_lib: extracted_members
    excluded_file,      \* the file at save_excluded
    out_file,           \* the file at out_lib
    result,             \* what create_lib / list_lib returned
    printed,            \* the member lines list_lib printed
    exit,               \* the ExitCode main returned
    history             \* results and listings of earlier runs of `list`

vars == <<pc, options, first, unexpected, nargs, parse_err, file, i,
          included_members, extracted_members, excluded_file, out_file,
          result, printed, exit, history>>

NotWritten == [written |-> FALSE, members |-> <<>>]
NoResult == [ok |-> FALSE, err |-> None]
Ok == [ok |-> TRUE, err |-> None]
Err(kind) == [ok |-> FALSE, err |-> kind]

Init ==
    /\ pc = "parse_args"
    /\ options = DefaultOptions
    /\ first = TRUE
    /\ unexpected = FALSE
    /\ nargs = 0
    /\ parse_err = FALSE
    /\ file = Unread
    /\ i = 0
    /\ included_members = <<>>
    /\ extracted_members = <<>>
    /\ excluded_file = NotWritten
    /\ out_file = NotWritten
    /\ result = NoResult
    /\ printed = <<>>
    /\ exit = None
    /\ history = <<>>

\* ------------------------------------------------------------------------
\* parse_args (main.rs 206-281)
\* ------------------------------------------------------------------------
IsCreate(o) == o.command = "Create"

\* One pass of the `while let` body for arg: the options and `unexpected`
\* after it, and ret: "cont" (loop again), "Ok" or "Err" (return).
ParseStep(o, isFirst, unexp, arg) ==
    LET cont(o2, u2) == [options |-> o2, unexpected |-> u2, ret |-> "cont"]
        flagged == cont(o, TRUE)
    IN
    IF (arg.kind = "short" /\ arg.name = "h") \/ (arg.kind = "long" /\ arg.name = "help")
    THEN [options |-> [o EXCEPT !.help = TRUE], unexpected |-> unexp, ret |-> "Ok"]
    ELSE IF arg.kind = "value" /\ isFirst
    THEN IF arg.path = "create" THEN cont([o EXCEPT !.command = "Create"], unexp)
         ELSE IF arg.path = "list" THEN cont([o EXCEPT !.command = "List"], unexp)
         ELSE flagged
    ELSE IF isFirst THEN flagged
    ELSE IF arg.kind = "value" /\ o.target_lib = None
    THEN cont([o EXCEPT !.target_lib = arg.path], unexp)
    ELSE IF arg.kind = "long" /\ arg.name = "from" /\ IsCreate(o)
    THEN IF arg.has_value THEN cont([o EXCEPT !.from_lib = arg.path], unexp)
         ELSE [options |-> o, unexpected |-> unexp, ret |-> "Err"]
    ELSE IF arg.kind = "long" /\ arg.name \in {"save-excluded", "keep-removed"} /\ IsCreate(o)
    THEN IF arg.has_value THEN cont([o EXCEPT !.save_excluded = arg.path], unexp)
         ELSE [options |-> o, unexpected |-> unexp, ret |-> "Err"]
    ELSE IF arg.kind = "long" /\ arg.name \in {"exclude", "remove"} /\ IsCreate(o)
    THEN IF ~arg.has_value THEN [options |-> o, unexpected |-> unexp, ret |-> "Err"]
         ELSE IF ~ToStrIsSome(arg.num) THEN flagged
         ELSE LET r == ParseOffset(arg.num) IN
              IF r[1]
              THEN cont([o EXCEPT !.exclude_offsets = Append(@, r[2])], unexp)
              ELSE [options |-> o, unexpected |-> unexp, ret |-> "Err"]
    ELSE IF arg.kind = "long" /\ arg.name \in {"exclude-idata", "remove-idata"} /\ IsCreate(o)
    THEN cont([o EXCEPT !.exclude_idata = TRUE], unexp)
    ELSE flagged

ParseUnchanged ==
    UNCHANGED <<file, i, included_members, extracted_members, excluded_file,
                out_file, result, printed, exit, history>>

\* parse_args returns: its locals are gone, main holds the result.
ParseReturn(o, isErr) ==
    /\ pc' = "main"
    /\ options' = (IF isErr THEN DefaultOptions ELSE o)
    /\ parse_err' = isErr
    /\ first' = TRUE
    /\ unexpected' = FALSE
    /\ nargs' = 0

\* parser.next() is Ok(Some(arg)).
ParseArg ==
    /\ pc = "parse_args"
    /\ nargs < MaxArgs
    /\ \E arg \in ArgPool(first) :
         LET s == ParseStep(options, first, unexpected, arg) IN
         /\ Len(s.options.exclude_offsets) <= MaxExcludes
         /\ IF s.ret = "cont"
            THEN /\ options' = s.options
                 /\ unexpected' = s.unexpected
                 /\ first' = FALSE
                 /\ nargs' = nargs + 1
                 /\ UNCHANGED <<pc, parse_err>>
            ELSE ParseReturn(s.options, s.ret = "Err")
    /\ ParseUnchanged

\* parser.next() is Ok(None): the loop ends.
ParseEnd ==
    /\ pc = "parse_args"
    /\ ParseReturn(options, unexpected)
    /\ ParseUnchanged

\* parser.next() is Err.
ParseFail ==
    /\ pc = "parse_args"
    /\ nargs < MaxArgs
    /\ ParseReturn(options, TRUE)
    /\ ParseUnchanged

\* ------------------------------------------------------------------------
\* main, up to the call of create_lib / list_lib (main.rs 317-357)
\* ------------------------------------------------------------------------
RunUnchanged ==
    UNCHANGED <<options, first, unexpected, nargs, parse_err, history>>

MainStart ==
    /\ pc = "main"
    /\ IF parse_err THEN pc' = "exit" /\ exit' = "FAILURE"
       ELSE IF options.help THEN pc' = "exit" /\ exit' = "SUCCESS"
       ELSE IF options.target_lib = None THEN pc' = "exit" /\ exit' = "FAILURE"
       ELSE IF options.command = "Create"
       THEN IF options.from_lib = None
            THEN pc' = "exit" /\ exit' = "FAILURE"
            ELSE pc' = "create_open" /\ exit' = exit
       ELSE IF options.command = "List"
       THEN pc' = "list_open" /\ exit' = exit
       ELSE pc' = "exit" /\ exit' = "SUCCESS"
    /\ RunUnchanged
    /\ UNCHANGED <<file, i, included_members, extracted_members, excluded_file,
                   out_file, result, printed>>

\* ------------------------------------------------------------------------
\* create_lib (main.rs 36-160)
\* ------------------------------------------------------------------------
\* fs::read and ArchiveFile::parse: the file's content is fixed by its first
\* read.  outcome "io" is fs::read failing.
OpenLib(next) ==
    \E outcome \in {"io", "read"} :
      \E c \in (IF file.read THEN {file} ELSE FileContents) :
        IF outcome = "io"
        THEN /\ result' = Err("cannot_read")
             /\ pc' = "main_ret"
             /\ UNCHANGED file
        ELSE /\ file' = c
             /\ IF c.archive
                THEN pc' = next /\ result' = result
                ELSE pc' = "main_ret" /\ result' = Err("not_archive")

CreateOpen ==
    /\ pc = "create_open"
    /\ OpenLib("create_loop")
    /\ RunUnchanged
    /\ UNCHANGED <<i, included_members, extracted_members, excluded_file,
                   out_file, printed, exit>>

Contains(v, x) == \E k \in 1..Len(v) : v[k] = x

\* Variant: the loop leaves after the first section.
ScanSections_FirstOnly(sections, k) ==
    IF k > Len(sections) THEN "keep"
    ELSE IF ~sections[k].ok THEN "section_name"
    ELSE IF StartsWith(sections[k].name, IdataPrefix) THEN "exclude"
    ELSE "keep"

\* The `for section in ...` loop (main.rs 74-87) from section k on.
RECURSIVE ScanSections(_, _)
ScanSections(sections, k) ==
    IF k > Len(sections) THEN "keep"
    ELSE IF ~sections[k].ok THEN "section_name"
    ELSE IF StartsWith(sections[k].name, IdataPrefix) THEN "exclude"
    ELSE ScanSections(sections, k + 1)

\* Variant: an unrecognised member is only warned about and kept.
Decide_WarnOnly(m, o) ==
    IF Contains(o.exclude_offsets, AsU32(m.offset)) THEN "exclude"
    ELSE IF o.exclude_idata
    THEN IF m.payload.coff THEN ScanSections(m.payload.sections, 1)
         ELSE IF m.payload.import THEN "exclude"
         ELSE "keep"
    ELSE "keep"

\* main.rs 67-105: "exclude", "keep", or the error returned.
Decide(m, o) ==
    IF Contains(o.exclude_offsets, AsU32(m.offset)) THEN "exclude"
    ELSE IF o.exclude_idata
    THEN IF m.payload.coff THEN ScanSections(m.payload.sections, 1)
         ELSE IF m.payload.import THEN "exclude"
         ELSE "unrecognised"
    ELSE "keep"

\* main.rs 106-111: data is the slice of the source buffer at the member's
\* file range.
NewArchiveMember(m) ==
    [member_name |-> FromUtf8Lossy(m.name),
     data |-> [start |-> m.offset, len |-> m.size, bytes |-> m.payload]]

\* main.rs 112-115: extracted_members after the `if exclude` statement.
PushExtracted(list, exclude, save_excluded, new_member) ==
    IF exclude /\ save_excluded # None THEN Append(list, new_member) ELSE list

\* Variant: the member is pushed whatever `exclude` is.
PushIncluded_Always(list, exclude, new_member) == Append(list, new_member)

\* Variant: the member is put in front.
PushIncluded_Front(list, exclude, new_member) ==
    IF exclude THEN list ELSE <<new_member>> \o list

\* main.rs 116-118: included_members after the `if exclude` statement.
PushIncluded(list, exclude, new_member) ==
    IF exclude THEN list ELSE Append(list, new_member)

\* One pass of `for member in archive.members()`, or its end.
CreateMember ==
    /\ pc = "create_loop"
    /\ IF i = Len(file.entries)
       THEN /\ pc' = "create_write_excluded"
            /\ UNCHANGED <<i, included_members, extracted_members, result>>
       ELSE LET m == file.entries[i + 1]
                d == Decide(m, options)
                fail(kind) == /\ result' = Err(kind)
                              /\ pc' = "main_ret"
                              /\ UNCHANGED <<i, included_members, extracted_members>>
            IN IF m.status = "hdr_err" THEN fail("member_read")
               ELSE IF m.status = "data_err" THEN fail("member_data")
               ELSE IF d \in {"section_name", "unrecognised"} THEN fail(d)
               ELSE /\ i' = i + 1
                    /\ extracted_members' =
                         PushExtracted(extracted_members, d = "exclude",
                                       options.save_excluded, NewArchiveMember(m))
                    /\ included_members' =
                         PushIncluded(included_members, d = "exclude", NewArchiveMember(m))
                    /\ UNCHANGED <<pc, result>>
    /\ RunUnchanged
    /\ UNCHANGED <<file, excluded_file, out_file, printed, exit>>

\* What write_archive_to_stream followed by fs::write leaves in the file.
WriteArchive(members) ==
    [written |-> TRUE,
     members |-> [k \in 1..Len(members) |->
                    [name |-> members[k].member_name, data |-> members[k].data.bytes]]]

\* Variant: an empty excluded archive is not written.
CreateWriteExcluded_SkipEmpty ==
    /\ pc = "create_write_excluded"
    /\ IF options.save_excluded = None \/ extracted_members = <<>>
       THEN /\ pc' = "create_write_included"
            /\ UNCHANGED <<excluded_file, result>>
       ELSE \E outcome \in {"encode", "write", "ok"} :
              IF outcome = "ok"
              THEN /\ excluded_file' = WriteArchive(extracted_members)
                   /\ pc' = "create_write_included"
                   /\ UNCHANGED result
              ELSE /\ result' = Err(outcome)
                   /\ pc' = "main_ret"
                   /\ UNCHANGED excluded_file
    /\ RunUnchanged
    /\ UNCHANGED <<file, i, included_members, extracted_members, out_file,
                   printed, exit>>

\* main.rs 121-138.  "encode": write_archive_to_stream is Err; "write":
\* fs::write is Err, and is taken to leave no file behind.
CreateWriteExcluded ==
    /\ pc = "create_write_excluded"
    /\ IF options.save_excluded = None
       THEN /\ pc' = "create_write_included"
            /\ UNCHANGED <<excluded_file, result>>
       ELSE \E outcome \in {"encode", "write", "ok"} :
              IF outcome = "ok"
              THEN /\ excluded_file' = WriteArchive(extracted_members)
                   /\ pc' = "create_write_included"
                   /\ UNCHANGED result
              ELSE /\ result' = Err(outcome)
                   /\ pc' = "main_ret"
                   /\ UNCHANGED excluded_file
    /\ RunUnchanged
    /\ UNCHANGED <<file, i, included_members, extracted_members, out_file,
                   printed, exit>>

\* main.rs 140-159.
CreateWriteIncluded ==
    /\ pc = "create_write_included"
    /\ \E outcome \in {"encode", "write", "ok"} :
         IF outcome = "ok"
         THEN /\ out_file' = WriteArchive(included_members)
              /\ result' = Ok
         ELSE /\ result' = Err(outcome)
              /\ UNCHANGED out_file
    /\ pc' = "main_ret"
    /\ RunUnchanged
    /\ UNCHANGED <<file, i, included_members, extracted_members, excluded_file,
                   printed, exit>>

\* ------------------------------------------------------------------------
\* list_lib (main.rs 162-187)
\* ------------------------------------------------------------------------
HeaderLine == [header |-> TRUE, offset |-> <<>>, size |-> <<>>, name |-> <<>>]

ListOpen ==
    /\ pc = "list_open"
    /\ OpenLib("list_loop")
    /\ printed' = (IF pc' = "list_loop" THEN <<HeaderLine>> ELSE printed)
    /\ RunUnchanged
    /\ UNCHANGED <<i, included_members, extracted_members, excluded_file,
                   out_file, exit>>

\* The values of one printed line; their rendering as text (hexadecimal,
\* padding) is left out.
MemberLine(m) ==
    [header |-> FALSE, offset |-> m.offset, size |-> m.size,
     name |-> FromUtf8Lossy(m.name)]

\* Variant: list_lib classifies each payload as create_lib does.
ListMember_Classifying ==
    /\ pc = "list_loop"
    /\ IF i = Len(file.entries)
       THEN /\ result' = Ok
            /\ pc' = "main_ret"
            /\ UNCHANGED <<i, printed>>
       ELSE LET m == file.entries[i + 1] IN
            IF m.status = "hdr_err"
            THEN /\ result' = Err("member_read")
                 /\ pc' = "main_ret"
                 /\ UNCHANGED <<i, printed>>
            ELSE IF ~m.payload.coff /\ ~m.payload.import
            THEN /\ result' = Err("unrecognised")
                 /\ pc' = "main_ret"
                 /\ UNCHANGED <<i, printed>>
            ELSE /\ i' = i + 1
                 /\ printed' = Append(printed, MemberLine(m))
                 /\ UNCHANGED <<pc, result>>
    /\ RunUnchanged
    /\ UNCHANGED <<file, included_members, extracted_members, excluded_file,
                   out_file, exit>>

ListMember ==
    /\ pc = "list_loop"
    /\ IF i = Len(file.entries)
       THEN /\ result' = Ok
            /\ pc' = "main_ret"
            /\ UNCHANGED <<i, printed>>
       ELSE LET m == file.entries[i + 1] IN
            IF m.status = "hdr_err"
            THEN /\ result' = Err("member_read")
                 /\ pc' = "main_ret"
                 /\ UNCHANGED <<i, printed>>
            ELSE /\ i' = i + 1
                 /\ printed' = Append(printed, MemberLine(m))
                 /\ UNCHANGED <<pc, result>>
    /\ RunUnchanged
    /\ UNCHANGED <<file, included_members, extracted_members, excluded_file,
                   out_file, exit>>

\* ------------------------------------------------------------------------
\* main after create_lib / list_lib returned (main.rs 343-358)
\* ------------------------------------------------------------------------
ExitAfter(r) ==
    IF r.ok THEN "SUCCESS"     \* Ok(_) => return ExitCode::SUCCESS
    ELSE "SUCCESS"             \* Err(e) => eprintln!; falls out of the match to line 358

MainReturn ==
    /\ pc = "main_ret"
    /\ exit' = ExitAfter(result)
    /\ pc' = "exit"
    /\ RunUnchanged
    /\ UNCHANGED <<file, i, included_members, extracted_members, excluded_file,
                   out_file, result, printed>>

\* `winlib list <path>` is issued again with the same command line on the same
\* file: parse_args yields the same options, main starts over.
ListAgain ==
    /\ pc = "exit"
    /\ options.command = "List"
    /\ result # NoResult
    /\ Len(history) + 1 < MaxRuns
    /\ history' = Append(history, [result |-> result, printed |-> printed])
    /\ pc' = "main"
    /\ i' = 0
    /\ result' = NoResult
    /\ printed' = <<>>
    /\ exit' = None
    /\ UNCHANGED <<options, first, unexpected, nargs, parse_err, file,
                   included_members, extracted_members, excluded_file, out_file>>

Next ==
    \/ ParseArg
    \/ ParseEnd
    \/ ParseFail
    \/ MainStart
    \/ CreateOpen
    \/ CreateMember
    \/ CreateWriteExcluded
    \/ CreateWriteIncluded
    \/ ListOpen
    \/ ListMember
    \/ MainReturn
    \/ ListAgain

Spec == Init /\ [][Next]_vars

\* ========================================================================
\* Properties
\* ========================================================================
Entries == file.entries
NumMembers == Len(file.entries)

\* create_lib has parsed the archive: i, included_members and
\* extracted_members are those of its member loop.
InCreate == options.command = "Create" /\ file.archive /\ pc # "create_open"

\* create_lib has returned.
CreateOver == InCreate /\ pc \in {"main_ret", "exit"}

\* The member loop of create_lib ended without an error.
LoopDone ==
    /\ InCreate
    /\ \/ pc \in {"create_write_excluded", "create_write_included"}
       \/ pc \in {"main_ret", "exit"} /\ (result.ok \/ result.err \in {"encode", "write"})

\* Source member k is in the list (a list element is the slice of the source
\* buffer at the member's offset).
InList(list, k) ==
    \E j \in 1..Len(list) :
       /\ list[j].data.start = Entries[k].offset
       /\ list[j].data.bytes = Entries[k].payload

Kept(k) == InList(included_members, k)
Extracted(k) == InList(extracted_members, k)

\* (a): the offset, cut to its low 32 bits, is listed.
OffsetListed(m) ==
    \E j \in 1..Len(options.exclude_offsets) :
       options.exclude_offsets[j] = <<m.offset[3], m.offset[4]>>

HasIdataSection(p) ==
    \E k \in 1..Len(p.sections) :
       /\ p.sections[k].ok
       /\ Len(p.sections[k].name) >= 7
       /\ SubSeq(p.sections[k].name, 1, 7) = <<46, 105, 100, 97, 116, 97, 36>>

\* (b): not listed, exclude_idata, and a COFF object with an .idata$ section
\* or, failing that parse, an import descriptor.
ImportMember(m) ==
    /\ ~OffsetListed(m)
    /\ options.exclude_idata
    /\ \/ m.payload.coff /\ HasIdataSection(m.payload)
       \/ ~m.payload.coff /\ m.payload.import

RuleExcludes(m) == OffsetListed(m) \/ ImportMember(m)

\* Neither a COFF object nor an import descriptor.
Unparseable(m) == m.status = "ok" /\ ~m.payload.coff /\ ~m.payload.import

\* C1 as stated: every member whose payload create_lib has looked at -- the
\* members the loop has passed and the one it returned an error on while
\* classifying -- is excluded if and only if (a) or (b) holds, and is kept
\* (is in included_members) in every other case.
ReachedByLoop(k) ==
    \/ k <= i
    \/ k = i + 1 /\ result.err \in {"section_name", "unrecognised"}

C1_EveryMemberKeptOrExcluded ==
    CreateOver =>
      \A k \in 1..NumMembers :
         ReachedByLoop(k) => (Kept(k) <=> ~RuleExcludes(Entries[k]))

\* C1, amended: every member whose pass of the loop completes without an
\* error is excluded if and only if (a) or (b) holds and is kept otherwise;
\* a listed offset excludes whatever exclude_idata and the payload are.
C1_ExclusionRule ==
    InCreate =>
      \A k \in 1..i :
         /\ Kept(k) <=> ~RuleExcludes(Entries[k])
         /\ (options.save_excluded # None) =>
               (Extracted(k) <=> RuleExcludes(Entries[k]))

C1_Witness ==
    /\ InCreate
    /\ ~options.exclude_idata
    /\ \E k \in 1..i :
         /\ OffsetListed(Entries[k])
         /\ Entries[k].payload = PObject
         /\ ~Kept(k)

\* C2: once the member loop has ended without an error, no source member is
\* in both lists; with save_excluded every member is in exactly one list and
\* the lengths add up to the number of members; without it extracted_members
\* is empty and included_members is no longer than the archive.
C2_Partition ==
    LoopDone =>
      /\ \A k \in 1..NumMembers : ~(Kept(k) /\ Extracted(k))
      /\ (options.save_excluded # None) =>
            /\ \A k \in 1..NumMembers : Kept(k) \/ Extracted(k)
            /\ Len(included_members) + Len(extracted_members) = NumMembers
      /\ (options.save_excluded = None) =>
            /\ extracted_members = <<>>
            /\ Len(included_members) <= NumMembers

C2_Witness ==
    /\ LoopDone
    /\ options.save_excluded # None
    /\ Len(included_members) >= 1
    /\ Len(extracted_members) >= 1

\* The position in the source archive of the member a list element was made
\* from, 0 if there is none.
SourceIndex(x) ==
    IF \E k \in 1..NumMembers : Entries[k].offset = x.data.start
    THEN CHOOSE k \in 1..NumMembers : Entries[k].offset = x.data.start
    ELSE 0

IsSubsequence(list) ==
    /\ \A j \in 1..Len(list) :
          /\ SourceIndex(list[j]) \in 1..i
          /\ list[j].data.bytes = Entries[SourceIndex(list[j])].payload
    /\ \A j1, j2 \in 1..Len(list) :
          j1 < j2 => SourceIndex(list[j1]) < SourceIndex(list[j2])

\* C3: at every point of the member loop and after it, included_members and
\* extracted_members are each a subsequence of the source members in
\* container order, and a written archive has the order of its list.
C3_StablePartition ==
    InCreate =>
      /\ IsSubsequence(included_members)
      /\ IsSubsequence(extracted_members)
      /\ out_file.written =>
            \A j \in 1..Len(out_file.members) :
               out_file.members[j].data = included_members[j].data.bytes
      /\ excluded_file.written =>
            \A j \in 1..Len(excluded_file.members) :
               excluded_file.members[j].data = extracted_members[j].data.bytes

C3_Witness ==
    /\ InCreate
    /\ out_file.written
    /\ Len(out_file.members) >= 2

NoOutput == ~out_file.written /\ ~excluded_file.written

ClassifiedUnparseable(m) ==
    Unparseable(m) /\ options.exclude_idata /\ ~OffsetListed(m)

C5_NoPartialOutput ==
    (CreateOver /\ options.save_excluded # None)
       => /\ excluded_file.written <=> out_file.written
          /\ ~result.ok => NoOutput

\* The written form of a source member: its name as create_lib passes it to
\* the writer, and its payload.
WrittenForm(m) == [name |-> FromUtf8Lossy(m.name), data |-> m.payload]

RECURSIVE Select(_, _, _)
Select(entries, k, wanted) ==
    IF k > Len(entries) THEN <<>>
    ELSE (IF RuleExcludes(entries[k]) = wanted
          THEN <<WrittenForm(entries[k])>> ELSE <<>>)
            \o Select(entries, k + 1, wanted)

\* C6: a successful run has written the kept archive, holding the members
\* that are not excluded; it has written the excluded archive, holding the
\* excluded members, exactly when save_excluded is set, also when that list
\* is empty; without save_excluded no excluded archive is ever written.
C6_Outputs ==
    /\ (CreateOver /\ result.ok) =>
          /\ out_file = [written |-> TRUE, members |-> Select(Entries, 1, FALSE)]
          /\ (options.save_excluded # None) =>
                excluded_file = [written |-> TRUE, members |-> Select(Entries, 1, TRUE)]
    /\ (options.save_excluded = None) => ~excluded_file.written

C6_Witness ==
    /\ CreateOver
    /\ result.ok
    /\ options.save_excluded # None
    /\ NumMembers >= 1
    /\ excluded_file = [written |-> TRUE, members |-> <<>>]

SameAsSource(w) ==
    \E k \in 1..NumMembers :
       Entries[k].name = w.name /\ Entries[k].payload = w.data

\* C7: every member of a written archive has exactly the name bytes and the
\* payload bytes of a source member.
C7_NamesAndPayloadsExact ==
    /\ out_file.written =>
          \A j \in 1..Len(out_file.members) : SameAsSource(out_file.members[j])
    /\ excluded_file.written =>
          \A j \in 1..Len(excluded_file.members) : SameAsSource(excluded_file.members[j])

IsU32(v) == v[1] \in 0..(Limb - 1) /\ v[2] \in 0..(Limb - 1)

\* C8: exclusion by offset compares the offset modulo 2^32: every listed
\* value is a u32, a member the loop has passed whose offset modulo 2^32 is
\* listed is excluded, and without exclude_idata no other member is.
C8_OffsetTruncated ==
    /\ \A j \in 1..Len(options.exclude_offsets) : IsU32(options.exclude_offsets[j])
    /\ InCreate =>
         \A k \in 1..i :
            /\ OffsetListed(Entries[k]) => ~Kept(k)
            /\ ~options.exclude_idata => (OffsetListed(Entries[k]) <=> ~Kept(k))

\* A member at 2^32 + 0x44 is excluded by the listed value 0x44.
C8_Witness ==
    /\ InCreate
    /\ ~options.exclude_idata
    /\ \E k \in 1..i :
         /\ Entries[k].offset = <<0, 1, 0, 68>>
         /\ options.exclude_offsets = << <<0, 68>> >>
         /\ ~Kept(k)

\* list_lib has parsed the archive in this run.
InListing ==
    /\ options.command = "List"
    /\ file.archive
    /\ pc \in {"list_loop", "main_ret", "exit"}
    /\ result.err # "cannot_read"

ListOver == InListing /\ pc \in {"main_ret", "exit"}

Triple(m) ==
    [header |-> FALSE, offset |-> m.offset, size |-> m.size,
     name |-> FromUtf8Lossy(m.name)]

\* C9: list_lib prints, after the header, one (offset, size, name) line per
\* member in container order; it succeeds whatever the payloads are, as long
\* as the members iterator yields no error; and two listings of the same
\* file that both read it print the same lines.
C9_Listing ==
    /\ InListing =>
         /\ printed = <<HeaderLine>> \o [k \in 1..i |-> Triple(Entries[k])]
         /\ (ListOver /\ \A k \in 1..NumMembers : Entries[k].status # "hdr_err")
               => (result.ok /\ i = NumMembers)
    /\ \A h \in 1..Len(history) :
         (ListOver /\ history[h].result.err # "cannot_read" /\ result.err # "cannot_read")
            => (history[h].printed = printed /\ history[h].result = result)

C9_Witness ==
    /\ ListOver
    /\ Len(history) >= 1
    /\ result.ok
    /\ history[1].result.ok
    /\ Len(printed) >= 2
    /\ \E k \in 1..NumMembers : Unparseable(Entries[k])

\* C10: main ends with a failure exit status whenever create_lib or list_lib
\* returned an error, and with ExitCode::SUCCESS only after help was asked
\* for or the command returned Ok.
C10_ExitStatus ==
    pc = "exit" =>
      /\ (result # NoResult /\ ~result.ok) => exit = "FAILURE"
      /\ exit = "SUCCESS" => (options.help \/ result.ok)

====
